---- MODULE Spec2Model ----
(***************************************************************************)
(* Model of workers.py: the retryable HTTP sender (_retryable) and the     *)
(* volume type validation worker (volume_type_validation_worker), one      *)
(* thread per launched job.                                                *)
(***************************************************************************)
EXTENDS Integers, Sequences, FiniteSets, TLC

VARIABLES
    lpc,            \* position of the caller inside volume_type_validation_worker
    handle,         \* what the launcher returned to its caller
    job,            \* closure variable `job`
    next_service,   \* closure variable `next_service`
    ai_service,     \* closure variable `ai_service`
    b64_identity,   \* closure variable `b64_identity`
    pc,             \* position of the worker thread
    batch_id,       \* worker local `batch_id`
    batch_data,     \* worker local `batch_data`
    all_dataframes, \* worker local `all_dataframes`
    validations,    \* outcomes of the validator invocations of the thread, in order
    result,         \* worker local `result`
    output,         \* worker local `output`
    opened,         \* number of requests.Session objects the thread has created
    session,        \* the requests.Session of the running _retryable call
    via,            \* the session (its number) each HTTP call went through, in order
    attempt,        \* loop variable `attempt` of _retryable
    sent,           \* HTTP calls issued by the thread, in order
    resps,          \* what each HTTP call produced, in order
    retval,         \* what _retryable returned / raised to the worker
    exc,            \* the exception that left worker(), if any
    logs            \* log records emitted by the thread, in order

vars == <<lpc, handle, job, next_service, ai_service, b64_identity, pc,
          batch_id, batch_data, all_dataframes, validations, result, output,
          opened, session, via, attempt, sent, resps, retval, exc, logs>>

launchVars == <<job, next_service, ai_service, b64_identity>>
localVars  == <<batch_id, batch_data, all_dataframes, validations, result, output>>
sendVars   == <<opened, session, via, attempt, sent, resps, retval>>

----------------------------------------------------------------------------
(* Program constants *)

MAX_RETRIES == 3

\* the fixed entity list of the worker
entities == <<"container_nodes", "container_nodes_tags", "volume_attachments",
              "volumes", "volume_types", "vms", "sources">>

EntitySet == {entities[i] : i \in 1..Len(entities)}

(* Bounds of the model *)

NumWorkers == 2     \* threads launched in the concurrent specification

----------------------------------------------------------------------------
(* Values *)

None == "None"

NoData == [kind |-> "absent", tables |-> <<>>]

NoJob == [keys |-> {}, id |-> None, data |-> NoData]

\* a mapping from some entity names to record lists
Mapping(t) == [kind |-> "mapping", tables |-> t]

\* values stored under an entity name: a list of records, None, or a scalar
Records(rows) == [kind |-> "records", rows |-> rows]
NoneValue == [kind |-> "None", rows |-> <<>>]
Scalar == [kind |-> "scalar", rows |-> <<>>]

\* a value stored under 'data' that has no .get
NonMapping(k) == [kind |-> k, tables |-> <<>>]

NoError == [type |-> "None", status |-> 0]

NoExc == [type |-> "None", msg |-> "", cause |-> NoError]

NoResult == [value |-> None, convertible |-> FALSE]

NoOutput == [id |-> None, ai_service |-> None, data |-> None]

NoReturn == [kind |-> "none", status |-> 0, exc |-> NoExc]

\* outcomes of one session.post(...) call
Response(s) == [kind |-> "response", status |-> s]
ConnErr == [kind |-> "ConnectionError", status |-> 0]
ReadTimeout == [kind |-> "ReadTimeout", status |-> 0]

LogRec(level, msg, ref, n) == [level |-> level, msg |-> msg, ref |-> ref, n |-> n]

----------------------------------------------------------------------------
(* Inputs of the two specifications *)

JobsWith(ids, datas) ==
    {[keys |-> {"id", "data"}, id |-> i, data |-> d] : i \in ids, d \in datas}
    \cup {[keys |-> {"data"}, id |-> None, data |-> d] : d \in datas}
    \cup {[keys |-> {"id"}, id |-> i, data |-> NoData] : i \in ids}
    \cup {[keys |-> {}, id |-> None, data |-> NoData]}

RichData ==
    { Mapping(<<>>),
      Mapping([e \in {"volumes"} |-> Records(<<"r1", "r2">>)]),
      Mapping([e \in {"volumes", "vms", "extra"} |->
                  IF e = "volumes" THEN Records(<<"r2", "r1">>)
                  ELSE IF e = "vms" THEN NoneValue ELSE Records(<<"r3">>)]),
      Mapping([e \in {"sources"} |-> Scalar]),
      NonMapping("list") }

Rich == [ jobs       |-> JobsWith({"b1", "b2"}, RichData),
          urls       |-> {"http://next/a", "http://next/b"},
          labels     |-> {"volume-type-ai", "other-ai"},
          identities |-> {None, "aWRlbnRpdHk="},
          validator  |-> {"ok", "raise_init", "raise_validate", "raise_to_dict"},
          results    |-> {"flagged_none", "flagged_some"},
          outcomes   |-> {Response(200), Response(204), Response(304),
                          Response(404), Response(500), ConnErr, ReadTimeout} ]

Lean == [ jobs       |-> {j \in JobsWith({"b1", "b2"}, {Mapping(<<>>)}) : "data" \in j.keys},
          urls       |-> {"http://next/a"},
          labels     |-> {"volume-type-ai"},
          identities |-> {None},
          validator  |-> {"ok", "raise_validate"},
          results    |-> {"flagged_none"},
          outcomes   |-> {Response(200), Response(500), ReadTimeout} ]

----------------------------------------------------------------------------
(* Pure helpers *)

\* a status check that only rejects server errors
RaisesForServerError(s) == 500 <= s /\ s < 600

\* Response.raise_for_status(): raises HTTPError for 4xx and 5xx
RaisesForStatus(s) == 400 <= s /\ s < 600

\* the error an attempt raises, NoError when the attempt returns normally
AttemptError(o) ==
    IF o.kind = "response"
    THEN IF RaisesForStatus(o.status)
         THEN [type |-> "HTTPError", status |-> o.status]
         ELSE NoError
    ELSE [type |-> o.kind, status |-> 0]

\* a handler that catches every exception
RetriedAny(e) == TRUE

\* a handler that forgets the connection errors
RetriedHTTPOnly(e) == e.type = "HTTPError"

\* except (requests.HTTPError, requests.ConnectionError)
Retried(e) == e.type \in {"HTTPError", "ConnectionError"}

\* the final error raised as a plain Exception
AllFailedUntyped == [type |-> "Exception", msg |-> "All attempts failed", cause |-> NoError]

\* raise requests.HTTPError('All attempts failed')
AllFailed == [type |-> "HTTPError", msg |-> "All attempts failed", cause |-> NoError]

\* a handler for the wrong exception class
WorkerCatchesConnOnly(e) == e.type = "ConnectionError"

\* except requests.HTTPError in worker()
WorkerCatches(e) == e.type = "HTTPError"

\* an extraction that only looks for the id
HasIdOnly(j) == "id" \in j.keys

\* job['id'], job['data'] raises KeyError
HasKeys(j) == "id" \in j.keys /\ "data" \in j.keys

\* batch_data.get(entity): the value or None
Get(d, e) == IF e \in DOMAIN d.tables THEN d.tables[e] ELSE NoneValue

\* pd.DataFrame(json_data): the rows in their order, no row for None
DataFrame(v) == IF v.kind = "records" THEN v.rows ELSE <<>>

\* a table constructor that does not accept None
DataFrameRaisesOnNone(v) == v.kind \in {"scalar", "None"}

\* pd.DataFrame(json_data) raises ValueError for a scalar
DataFrameRaises(v) == v.kind = "scalar"

\* a loop that only makes a table for the names the job has
MaterializePresentOnly(d) ==
    [e \in EntitySet \cap DOMAIN d.tables |-> DataFrame(Get(d, e))]

\* lines 83-87: all_dataframes[entity] = pd.DataFrame(batch_data.get(entity))
Materialize(d) == [e \in EntitySet |-> DataFrame(Get(d, e))]

\* the headers that leave the session: a header whose value is None is dropped
Prepared(h) == IF h.value = None THEN {} ELSE {h}

\* a call that forgets to forward the identity
RequestNoIdentity(method, url, body, ident) ==
    [method |-> method, url |-> url, json |-> body,
     headers |-> [name |-> "x-rh-identity", value |-> None],
     wire |-> {}]

\* the call issued by one attempt: getattr(session, method)(*args, **kwargs)
Request(method, url, body, ident) ==
    [method |-> method, url |-> url, json |-> body,
     headers |-> [name |-> "x-rh-identity", value |-> ident],
     wire |-> Prepared([name |-> "x-rh-identity", value |-> ident])]

\* an envelope with the label where the id belongs
BuildOutputSwapped(id, label, data) == [id |-> label, ai_service |-> id, data |-> data]

\* lines 98-102: the response JSON
BuildOutput(id, label, data) == [id |-> id, ai_service |-> label, data |-> data]

Append1(f, w, x) == [f EXCEPT ![w] = Append(@, x)]

----------------------------------------------------------------------------
(* Initial state: nothing launched *)

InitFor(W) ==
    /\ lpc = [w \in W |-> "idle"]
    /\ handle = [w \in W |-> None]
    /\ job = [w \in W |-> NoJob]
    /\ next_service = [w \in W |-> None]
    /\ ai_service = [w \in W |-> None]
    /\ b64_identity = [w \in W |-> None]
    /\ pc = [w \in W |-> "unborn"]
    /\ batch_id = [w \in W |-> None]
    /\ batch_data = [w \in W |-> NoData]
    /\ all_dataframes = [w \in W |-> <<>>]
    /\ validations = [w \in W |-> <<>>]
    /\ result = [w \in W |-> NoResult]
    /\ output = [w \in W |-> NoOutput]
    /\ opened = [w \in W |-> 0]
    /\ session = [w \in W |-> "none"]
    /\ via = [w \in W |-> <<>>]
    /\ attempt = [w \in W |-> 0]
    /\ sent = [w \in W |-> <<>>]
    /\ resps = [w \in W |-> <<>>]
    /\ retval = [w \in W |-> NoReturn]
    /\ exc = [w \in W |-> NoExc]
    /\ logs = [w \in W |-> <<>>]

----------------------------------------------------------------------------
(* The launcher: volume_type_validation_worker *)

\* thread = Thread(target=worker); thread.start()
Launch(w, I) ==
    /\ lpc[w] = "idle"
    /\ \E j \in I.jobs, u \in I.urls, a \in I.labels, b \in I.identities :
          /\ job' = [job EXCEPT ![w] = j]
          /\ next_service' = [next_service EXCEPT ![w] = u]
          /\ ai_service' = [ai_service EXCEPT ![w] = a]
          /\ b64_identity' = [b64_identity EXCEPT ![w] = b]
    /\ lpc' = [lpc EXCEPT ![w] = "spawned"]
    /\ pc' = [pc EXCEPT ![w] = "started"]
    /\ UNCHANGED <<handle, localVars, sendVars, exc, logs>>

\* a launcher that joins the thread before it returns
CanReturnAfterJoin(w) ==
    lpc[w] = "spawned" /\ pc[w] \in {"aborted", "crashed", "done"}

\* `return thread` waits for nothing but the spawn
CanReturn(w) == lpc[w] = "spawned"

LaunchReturn(w) ==
    /\ CanReturn(w)
    /\ lpc' = [lpc EXCEPT ![w] = "returned"]
    /\ handle' = [handle EXCEPT ![w] = "thread"]
    /\ UNCHANGED <<launchVars, pc, localVars, sendVars, exc, logs>>

----------------------------------------------------------------------------
(* The worker thread *)

\* a worker that swallows the exception and goes on to its last log
CrashSwallowed(w, e) ==
    /\ pc' = [pc EXCEPT ![w] = "finish"]
    /\ UNCHANGED exc

\* a worker that swallows the exception and publishes all the same
CrashResumes(w, e) ==
    /\ pc' = [pc EXCEPT ![w] = "send"]
    /\ UNCHANGED exc

\* an exception leaves worker(): the thread dies
Crash(w, e) ==
    /\ pc' = [pc EXCEPT ![w] = "crashed"]
    /\ exc' = [exc EXCEPT ![w] = e]

Raised(type) == [type |-> type, msg |-> "", cause |-> NoError]

\* lines 59-68: debug log, then the extraction of id and data
Parse(w) ==
    /\ pc[w] = "started"
    /\ IF HasKeys(job[w])
       THEN /\ batch_id' = [batch_id EXCEPT ![w] = job[w].id]
            /\ batch_data' = [batch_data EXCEPT ![w] = job[w].data]
            /\ logs' = [logs EXCEPT ![w] =
                  @ \o <<LogRec("debug", "Worker started", None, 0),
                         LogRec("info", "Started", job[w].id, 0)>>]
            /\ pc' = [pc EXCEPT ![w] = "materialize"]
       ELSE /\ logs' = [logs EXCEPT ![w] =
                  @ \o <<LogRec("debug", "Worker started", None, 0),
                         LogRec("error", "Invalid Job data, terminated.", None, 0)>>]
            /\ pc' = [pc EXCEPT ![w] = "aborted"]
            /\ UNCHANGED <<batch_id, batch_data>>
    /\ UNCHANGED <<lpc, handle, launchVars, all_dataframes, validations, result,
                   output, sendVars, exc>>

\* lines 73-92: one table per entity, then the info log
BuildTables(w) ==
    /\ pc[w] = "materialize"
    /\ IF batch_data[w].kind # "mapping"
       THEN \* batch_data.get does not exist
            /\ Crash(w, Raised("AttributeError"))
            /\ UNCHANGED <<all_dataframes, logs>>
       ELSE IF \E e \in EntitySet : DataFrameRaises(Get(batch_data[w], e))
       THEN /\ Crash(w, Raised("ValueError"))
            /\ UNCHANGED <<all_dataframes, logs>>
       ELSE /\ all_dataframes' = [all_dataframes EXCEPT ![w] = Materialize(batch_data[w])]
            /\ logs' = Append1(logs, w, LogRec("info", "Validating", batch_id[w], 0))
            /\ pc' = [pc EXCEPT ![w] = "validate"]
            /\ UNCHANGED exc
    /\ UNCHANGED <<lpc, handle, launchVars, batch_id, batch_data, validations,
                   result, output, sendVars>>

\* lines 94-95: AwsVolumeTypeValidation(all_dataframes).validate()
Validate(w, I) ==
    /\ pc[w] = "validate"
    /\ \E v \in I.validator, r \in I.results :
          /\ validations' = Append1(validations, w, v)
          /\ IF v \in {"raise_init", "raise_validate"}
             THEN /\ Crash(w, Raised("ValidatorError"))
                  /\ UNCHANGED result
             ELSE /\ result' = [result EXCEPT ![w] =
                                   [value |-> r, convertible |-> v = "ok"]]
                  /\ pc' = [pc EXCEPT ![w] = "envelope"]
                  /\ UNCHANGED exc
    /\ UNCHANGED <<lpc, handle, launchVars, batch_id, batch_data, all_dataframes,
                   output, sendVars, logs>>

\* lines 98-107: result.to_dict(), the response JSON, then the info log
Envelope(w) ==
    /\ pc[w] = "envelope"
    /\ IF result[w].convertible
       THEN /\ output' = [output EXCEPT ![w] =
                  BuildOutput(batch_id[w], ai_service[w], result[w].value)]
            /\ logs' = Append1(logs, w, LogRec("info", "Validation done, publishing", batch_id[w], 0))
            /\ pc' = [pc EXCEPT ![w] = "send"]
            /\ UNCHANGED exc
       ELSE /\ Crash(w, Raised("ValidatorError"))
            /\ UNCHANGED <<output, logs>>
    /\ UNCHANGED <<lpc, handle, launchVars, batch_id, batch_data, all_dataframes,
                   validations, result, sendVars>>

----------------------------------------------------------------------------
(* _retryable, as called at lines 111-116 *)

\* the exception of _retryable reaches the try of worker()
Propagate(w, e) ==
    IF WorkerCatches(e)
    THEN /\ pc' = [pc EXCEPT ![w] = "failed"]
         /\ UNCHANGED exc
    ELSE Crash(w, e)

\* lines 23-25: with requests.Session() as session
SessionOpen(w) ==
    /\ pc[w] = "send"
    /\ opened' = [opened EXCEPT ![w] = @ + 1]
    /\ session' = [session EXCEPT ![w] = "open"]
    /\ attempt' = [attempt EXCEPT ![w] = 0]
    /\ pc' = [pc EXCEPT ![w] = "attempt"]
    /\ UNCHANGED <<lpc, handle, launchVars, localVars, via, sent, resps, retval, exc, logs>>

RECURSIVE SumOver(_, _)
SumOver(f, S) ==
    IF S = {} THEN 0
    ELSE LET x == CHOOSE y \in S : TRUE IN f[x] + SumOver(f, S \ {x})

\* a retry counter kept in a module global, shared by all threads
IssuedShared(w) == SumOver(attempt, DOMAIN attempt)

\* the iterations done so far: `attempt` is a local of the call of the thread
Issued(w) == attempt[w]

\* the loop with one iteration too many
MoreAttemptsOffByOne(n) == n <= MAX_RETRIES

\* the loop goes on: `for attempt in range(MAX_RETRIES)`
MoreAttempts(n) == n < MAX_RETRIES

\* a session that is never closed (no `with`)
LeakSession(w) == UNCHANGED session

\* line 25: the with block is left, on return and on every exception
CloseSession(w) == session' = [session EXCEPT ![w] = "closed"]

\* a success branch that lacks its `return`: the loop goes on
ReturnRespMissing(w, o) ==
    /\ retval' = [retval EXCEPT ![w] =
          [kind |-> "returned", status |-> o.status, exc |-> NoExc]]
    /\ attempt' = [attempt EXCEPT ![w] = @ + 1]
    /\ UNCHANGED <<session, pc, exc, logs>>

\* lines 37-38: else: return resp
ReturnResp(w, o) ==
    /\ retval' = [retval EXCEPT ![w] =
          [kind |-> "returned", status |-> o.status, exc |-> NoExc]]
    /\ CloseSession(w)
    /\ pc' = [pc EXCEPT ![w] = "finish"]
    /\ UNCHANGED <<attempt, exc, logs>>

\* a warning that names the number of retries instead of the attempt
WarningForLimit(n) == LogRec("warning", "Request failed, retrying", None, MAX_RETRIES)

\* lines 32-35: the warning with the attempt number
WarningFor(n) == LogRec("warning", "Request failed, retrying", None, n)

\* lines 26-38: one iteration of the loop
Attempt(w, I) ==
    /\ pc[w] = "attempt"
    /\ MoreAttempts(Issued(w))
    /\ sent' = Append1(sent, w, Request("post", next_service[w], output[w], b64_identity[w]))
    /\ via' = Append1(via, w, opened[w])
    /\ \E o \in I.outcomes :
          LET e == AttemptError(o) IN
          /\ resps' = Append1(resps, w, o)
          /\ IF e = NoError
             THEN ReturnResp(w, o)
             ELSE IF Retried(e)
             THEN \* except: warning, continue
                  /\ logs' = Append1(logs, w, WarningFor(attempt[w]))
                  /\ attempt' = [attempt EXCEPT ![w] = @ + 1]
                  /\ UNCHANGED <<session, retval, pc, exc>>
             ELSE \* any other exception leaves the with block and _retryable
                  LET x == [type |-> e.type, msg |-> "", cause |-> NoError] IN
                  /\ retval' = [retval EXCEPT ![w] =
                        [kind |-> "raised", status |-> 0, exc |-> x]]
                  /\ CloseSession(w)
                  /\ Propagate(w, x)
                  /\ UNCHANGED <<attempt, logs>>
    /\ UNCHANGED <<lpc, handle, launchVars, localVars, opened>>

\* line 40: the loop is over, raise requests.HTTPError('All attempts failed')
Exhausted(w) ==
    /\ pc[w] = "attempt"
    /\ ~MoreAttempts(Issued(w))
    /\ CloseSession(w)
    /\ retval' = [retval EXCEPT ![w] =
          [kind |-> "raised", status |-> 0, exc |-> AllFailed]]
    /\ Propagate(w, AllFailed)
    /\ UNCHANGED <<lpc, handle, launchVars, localVars, opened, via, attempt, sent, resps, logs>>

----------------------------------------------------------------------------
(* Back in worker() *)

\* a handler that goes back into the sender instead of giving up
HandleFailureRetries(w) ==
    /\ pc[w] = "failed"
    /\ pc' = [pc EXCEPT ![w] = "attempt"]
    /\ UNCHANGED <<lpc, handle, launchVars, localVars, sendVars, exc, logs>>

\* lines 117-121: except requests.HTTPError, the error log
HandleFailure(w) ==
    /\ pc[w] = "failed"
    /\ logs' = Append1(logs, w, LogRec("error", "Failed to pass data", batch_id[w], 0))
    /\ pc' = [pc EXCEPT ![w] = "finish"]
    /\ UNCHANGED <<lpc, handle, launchVars, localVars, sendVars, exc>>

\* line 123: the last debug log, worker() returns
Done(w) ==
    /\ pc[w] = "finish"
    /\ logs' = Append1(logs, w, LogRec("debug", "Done, exiting", None, 0))
    /\ pc' = [pc EXCEPT ![w] = "done"]
    /\ UNCHANGED <<lpc, handle, launchVars, localVars, sendVars, exc>>

----------------------------------------------------------------------------
(* Specifications *)

One == {1}

Init == InitFor(One)

Next ==
    \/ \E w \in One : Launch(w, Rich)
    \/ \E w \in One : LaunchReturn(w)
    \/ \E w \in One : Parse(w)
    \/ \E w \in One : BuildTables(w)
    \/ \E w \in One : Validate(w, Rich)
    \/ \E w \in One : Envelope(w)
    \/ \E w \in One : SessionOpen(w)
    \/ \E w \in One : Attempt(w, Rich)
    \/ \E w \in One : Exhausted(w)
    \/ \E w \in One : HandleFailure(w)
    \/ \E w \in One : Done(w)

Spec == Init /\ [][Next]_vars

\* the steps of the thread of worker(): the scheduler runs a started thread,
\* and every validator call and HTTP call returns or raises
WorkerStep(w) ==
    \/ Parse(w)
    \/ BuildTables(w)
    \/ Validate(w, Rich)
    \/ Envelope(w)
    \/ SessionOpen(w)
    \/ Attempt(w, Rich)
    \/ Exhausted(w)
    \/ HandleFailure(w)
    \/ Done(w)

SpecFair == Init /\ [][Next]_vars /\ \A w \in One : WF_vars(WorkerStep(w))

Threads == 1..NumWorkers

InitConc == InitFor(Threads)

NextConc ==
    \/ \E w \in Threads : Launch(w, Lean)
    \/ \E w \in Threads : LaunchReturn(w)
    \/ \E w \in Threads : Parse(w)
    \/ \E w \in Threads : BuildTables(w)
    \/ \E w \in Threads : Validate(w, Lean)
    \/ \E w \in Threads : Envelope(w)
    \/ \E w \in Threads : SessionOpen(w)
    \/ \E w \in Threads : Attempt(w, Lean)
    \/ \E w \in Threads : Exhausted(w)
    \/ \E w \in Threads : HandleFailure(w)
    \/ \E w \in Threads : Done(w)

SpecConc == InitConc /\ [][NextConc]_vars

----------------------------------------------------------------------------
(* Vocabulary of the properties *)

Ws == DOMAIN pc

Is2xx(o) == o.kind = "response" /\ 200 <= o.status /\ o.status <= 299

\* the response is one raise_for_status lets through
Accepted(o) == o.kind = "response" /\ ~(400 <= o.status /\ o.status <= 599)

\* an HTTP status error or a connection error
StatusOrConnFailure(o) ==
    \/ o.kind = "ConnectionError"
    \/ o.kind = "response" /\ 400 <= o.status /\ o.status <= 599

\* the i-th attempt of w was caught and logged as failed (attempts are logged from 0)
Warned(w, i) ==
    \E k \in 1..Len(logs[w]) : logs[w][k].level = "warning" /\ logs[w][k].n = i - 1

\* _retryable has returned or raised
SendEnded(w) == retval[w].kind # "none"

AllThreeFailed(w) ==
    /\ Len(resps[w]) = 3
    /\ \A i \in 1..3 : StatusOrConnFailure(resps[w][i])

ErrorLogs(w) == {k \in 1..Len(logs[w]) : logs[w][k].level = "error"}

----------------------------------------------------------------------------
(* C1: whatever the attempts produce, one call of _retryable issues at most
   MAX_RETRIES (3) HTTP calls; no behaviour has a 4th attempt. *)
C1_AtMostMaxRetries == \A w \in Ws : Len(sent[w]) <= 3

C1_Witness ==
    \E w \in Ws : /\ Len(sent[w]) = 3
                  /\ AllThreeFailed(w)
                  /\ retval[w].kind = "raised"
                  /\ pc[w] = "done"

(* C2, as claimed: the send returns a response exactly when one of the first
   three attempts had a 2xx status, that response being the first such one,
   and it fails only if all three attempts failed. *)
C2_ReturnsIff2xx ==
    \A w \in Ws : SendEnded(w) =>
        /\ (retval[w].kind = "returned") <=>
               (\E i \in 1..Len(resps[w]) : Is2xx(resps[w][i]))
        /\ (retval[w].kind = "raised") =>
               (Len(resps[w]) = 3 /\ \A i \in 1..3 : ~Is2xx(resps[w][i]))

(* C2, amended: the send returns a response exactly when an attempt came
   back with a status that is not 4xx/5xx, that response being the one of the
   first such attempt (and the last attempt issued); it raises 'All attempts
   failed' exactly when three attempts failed with a status error or a
   connection error; an attempt raising any other error ends the send with
   that error. *)
C2_ReturnsIffAccepted ==
    \A w \in Ws : SendEnded(w) =>
        LET n == Len(resps[w]) IN
        /\ n >= 1
        /\ \A i \in 1..(n - 1) : StatusOrConnFailure(resps[w][i])
        /\ (retval[w].kind = "returned") <=>
               (\E i \in 1..n : Accepted(resps[w][i]))
        /\ (retval[w].kind = "returned") =>
               /\ Accepted(resps[w][n])
               /\ retval[w].status = resps[w][n].status
        /\ (retval[w].kind = "raised" /\ retval[w].exc.msg = "All attempts failed")
               <=> AllThreeFailed(w)
        /\ (retval[w].kind = "raised" /\ retval[w].exc.msg # "All attempts failed")
               <=> (~Accepted(resps[w][n]) /\ ~StatusOrConnFailure(resps[w][n]))
        /\ (retval[w].kind = "raised" /\ retval[w].exc.msg # "All attempts failed")
               => retval[w].exc.type = resps[w][n].kind

C2_Witness ==
    \E w \in Ws : /\ retval[w].kind = "returned"
                  /\ Len(resps[w]) = 3
                  /\ resps[w][1].kind = "ConnectionError"
                  /\ resps[w][2].status = 500
                  /\ resps[w][3].status = 304

(* C3, as claimed: an attempt is successful exactly when its response status
   is 2xx; every other status and every connection error is a failed attempt,
   caught and logged. *)
C3_FailedIffNot2xx ==
    \A w \in Ws : \A i \in 1..Len(resps[w]) :
        resps[w][i].kind \in {"response", "ConnectionError"} =>
            (Warned(w, i) <=> ~Is2xx(resps[w][i]))

(* C3, amended: an attempt is a failed attempt exactly when its response
   status is 4xx or 5xx or the call raises a connection error; a response with
   any other status (2xx, and a 1xx/3xx that reaches the caller) is returned
   as the success. A failed attempt is caught, and the loop goes on to the next
   attempt while fewer than MAX_RETRIES have been issued. *)
C3_FailedIffStatusError ==
    \A w \in Ws : \A i \in 1..Len(resps[w]) :
        LET o == resps[w][i] IN
        o.kind \in {"response", "ConnectionError"} =>
            /\ Warned(w, i) <=> (o.kind = "ConnectionError" \/ (400 <= o.status /\ o.status <= 599))
            /\ ~Warned(w, i) =>
                  /\ i = Len(resps[w])
                  /\ retval[w].kind = "returned"
                  /\ retval[w].status = o.status
            /\ (Warned(w, i) /\ i = Len(resps[w]) /\ i < 3) =>
                  /\ pc[w] = "attempt"
                  /\ attempt[w] = i
                  /\ session[w] = "open"
                  /\ retval[w].kind = "none"
                  /\ exc[w].type = "None"

C3_Witness ==
    \E w \in Ws : /\ Len(resps[w]) = 3
                  /\ resps[w][1].status = 404
                  /\ resps[w][2].kind = "ConnectionError"
                  /\ Warned(w, 1) /\ Warned(w, 2)
                  /\ resps[w][3].status = 204
                  /\ retval[w].kind = "returned"

(* C4, as claimed: when all three attempts fail, the error raised carries
   the error of the last attempt. *)
C4_CarriesLastError ==
    \A w \in Ws : (AllThreeFailed(w) /\ SendEnded(w)) =>
        /\ retval[w].kind = "raised"
        /\ retval[w].exc.cause = AttemptError(resps[w][3])

(* C4, amended: when all three attempts fail, the sender raises
   HTTPError('All attempts failed'), an error that carries nothing of the
   attempts' errors (those are only logged), and returns no response. *)
C4_RaisesAllFailed ==
    \A w \in Ws : AllThreeFailed(w) =>
        \/ pc[w] = "attempt" /\ retval[w].kind = "none"
        \/ /\ retval[w].kind = "raised"
           /\ retval[w].status = 0
           /\ retval[w].exc.type = "HTTPError"
           /\ retval[w].exc.msg = "All attempts failed"
           /\ retval[w].exc.cause.type = "None"
           /\ pc[w] \in {"failed", "finish", "done"}

C4_Witness ==
    \E w \in Ws : /\ AllThreeFailed(w)
                  /\ resps[w][3].status = 500
                  /\ retval[w].kind = "raised"
                  /\ retval[w].exc.type = "HTTPError"

(* C5: a job without the 'id' key or without the 'data' key makes the worker
   abort: the validator is never invoked, no HTTP call is issued, exactly one
   error-level record is logged and no exception leaves the worker. *)
C5_MalformedJobAborts ==
    \A w \in Ws :
        (pc[w] \notin {"unborn", "started"} /\ ~({"id", "data"} \subseteq job[w].keys)) =>
            /\ pc[w] = "aborted"
            /\ validations[w] = <<>>
            /\ all_dataframes[w] = <<>>
            /\ sent[w] = <<>>
            /\ session[w] = "none"
            /\ Cardinality(ErrorLogs(w)) = 1
            /\ exc[w].type = "None"

C5_Witness ==
    \E w \in Ws : /\ job[w].keys = {"data"}
                  /\ pc[w] = "aborted"
                  /\ Cardinality(ErrorLogs(w)) = 1

\* the validator has raised: in the constructor, in validate() or in to_dict()
ValidatorRaised(w) ==
    /\ validations[w] # <<>>
    /\ LET v == validations[w][Len(validations[w])] IN
       \/ v \in {"raise_init", "raise_validate"}
       \/ v = "raise_to_dict" /\ pc[w] # "envelope"

(* C6: an error raised by the validator is not caught by the worker: the
   thread dies with it, the last log (Done) is never written, no envelope is
   built and no HTTP call is made for the job. *)
C6_ValidatorErrorIsFatal ==
    \A w \in Ws : ValidatorRaised(w) =>
        /\ pc[w] = "crashed"
        /\ exc[w].type = "ValidatorError"
        /\ output[w] = NoOutput
        /\ sent[w] = <<>>
        /\ session[w] = "none"
        /\ \A k \in 1..Len(logs[w]) : logs[w][k].msg # "Done, exiting"

C6_Witness ==
    \E w \in Ws : /\ validations[w] = <<"raise_to_dict">>
                  /\ pc[w] = "crashed"
                  /\ exc[w].type = "ValidatorError"

(* C7: when all three attempts fail, no 4th attempt follows, the worker logs
   exactly one error-level record, which names the job id, and it ends in
   Done, neither crashed nor aborted. *)
C7_DeliveryFailureIsContained ==
    \A w \in Ws : AllThreeFailed(w) =>
        /\ Len(sent[w]) = 3
        /\ pc[w] \in {"attempt", "failed", "finish", "done"}
        /\ exc[w].type = "None"
        /\ pc[w] \in {"attempt", "failed"} => ErrorLogs(w) = {}
        /\ pc[w] \in {"finish", "done"} =>
              /\ Cardinality(ErrorLogs(w)) = 1
              /\ \A k \in ErrorLogs(w) : logs[w][k].ref = job[w].id
        /\ pc[w] = "done" => logs[w][Len(logs[w])].msg = "Done, exiting"

C7_Witness ==
    \E w \in Ws : /\ AllThreeFailed(w)
                  /\ \A i \in 1..3 : resps[w][i].status = 500
                  /\ job[w].id = "b1"
                  /\ pc[w] = "done"
                  /\ \E k \in ErrorLogs(w) : logs[w][k].ref = "b1"

(* C8: every HTTP call of a job is a POST to the next_service of its launch
   with the body {id, ai_service, data}: the id of the job, the label given at
   launch and the validator's result; all calls of one job are identical
   (method, URL, body, headers). *)
C8_EveryAttemptSendsTheEnvelope ==
    \A w \in Ws : \A i \in 1..Len(sent[w]) :
        /\ sent[w][i].method = "post"
        /\ sent[w][i].url = next_service[w]
        /\ sent[w][i].json.id = job[w].id
        /\ "id" \in job[w].keys
        /\ sent[w][i].json.ai_service = ai_service[w]
        /\ sent[w][i].json.data = result[w].value
        /\ validations[w] = <<"ok">>
        /\ sent[w][i].headers = [name |-> "x-rh-identity", value |-> b64_identity[w]]
        /\ sent[w][i] = sent[w][1]

C8_Witness ==
    \E w \in Ws : /\ Len(sent[w]) = 3
                  /\ sent[w][3].json = [id |-> "b2", ai_service |-> "other-ai",
                                        data |-> "flagged_some"]
                  /\ sent[w][3].url = "http://next/b"

(* C9: the launcher returns the thread handle without waiting for the
   worker: as soon as the thread is spawned the return can happen, whatever
   the job is and wherever the worker stands; what the caller gets is always
   the handle, never an error of the worker. *)
C9_LaunchReturnsAtOnce ==
    \A w \in Ws :
        /\ lpc[w] = "spawned" => ENABLED LaunchReturn(w)
        /\ lpc[w] = "returned" => handle[w] = "thread"
        /\ lpc[w] # "returned" => handle[w] = None

C9_Witness ==
    \E w \in Ws : /\ lpc[w] = "returned"
                  /\ handle[w] = "thread"
                  /\ job[w].keys = {}
                  /\ pc[w] = "started"

\* everything the model keeps for thread w
WState(w) ==
    <<lpc[w], handle[w], job[w], next_service[w], ai_service[w], b64_identity[w],
      pc[w], batch_id[w], batch_data[w], all_dataframes[w], validations[w],
      result[w], output[w], opened[w], session[w], via[w], attempt[w], sent[w], resps[w],
      retval[w], exc[w], logs[w]>>

\* the terminal state that the inputs of w alone determine
OwnOutcome(w) ==
    IF ~({"id", "data"} \subseteq job[w].keys) THEN "aborted"
    ELSE IF job[w].data.kind # "mapping" THEN "crashed"
    ELSE IF \E e \in DOMAIN job[w].data.tables :
               /\ e \in {"container_nodes", "container_nodes_tags", "volume_attachments",
                          "volumes", "volume_types", "vms", "sources"}
               /\ job[w].data.tables[e].kind = "scalar" THEN "crashed"
    ELSE IF validations[w] # <<"ok">> THEN "crashed"
    ELSE IF resps[w][Len(resps[w])].kind \notin {"response", "ConnectionError"} THEN "crashed"
    ELSE "done"

C10_Own ==
    \A w \in Ws :
        /\ Len(sent[w]) = Len(resps[w])
        /\ Len(sent[w]) <= 3
        /\ \A i \in 1..Len(sent[w]) :
              /\ sent[w][i].json.id = job[w].id
              /\ sent[w][i].url = next_service[w]
        /\ (retval[w].kind = "raised" /\ retval[w].exc.msg = "All attempts failed")
              <=> (AllThreeFailed(w) /\ pc[w] # "attempt")
        /\ retval[w].kind = "returned" => resps[w][Len(resps[w])].status = retval[w].status
        /\ pc[w] \in {"aborted", "crashed", "done"} => pc[w] = OwnOutcome(w)

C10_StepsAreLocal == Cardinality({w \in Ws : WState(w)' # WState(w)}) <= 1

(* C10: concurrent jobs are isolated: whatever the interleaving, a step
   changes the state of one thread only, the outcome of a thread, its number
   of HTTP calls and its envelopes follow from its own job, arguments,
   validator result and responses, every envelope carries the id of the job of
   the thread that sent it, and a thread gives up only after three failed
   attempts of its own. *)
C10_Isolation == []C10_Own /\ [][C10_StepsAreLocal]_vars

C10_Witness ==
    \E a, b \in Ws :
        /\ a # b
        /\ job[a].id = "b1" /\ job[b].id = "b2"
        /\ pc[a] = "done" /\ AllThreeFailed(a)
        /\ pc[b] = "done" /\ Len(sent[b]) = 1 /\ retval[b].kind = "returned"
        /\ sent[b][1].json.id = "b2"

----------------------------------------------------------------------------
\* the seven names, written out
SevenNames == {"container_nodes", "container_nodes_tags", "volume_attachments",
               "volumes", "volume_types", "vms", "sources"}

\* the thread has got past the loop that builds the tables
TablesBuilt(w) == pc[w] = "validate" \/ validations[w] # <<>>

\* data is a mapping, and what it holds under an entity name is a record list or None
WellFormedData(d) ==
    /\ d.kind = "mapping"
    /\ \A e \in SevenNames \cap DOMAIN d.tables : d.tables[e].kind \in {"records", "None"}

(* C11: for a job whose data is a mapping, the batch handed to the validator
   has exactly one table per name of the entity list; a name the job does not
   have gives an empty table and no error, a name the job has gives the job's
   records for it in their order. *)
C11_OneTablePerEntity ==
    \A w \in Ws :
        /\ TablesBuilt(w) =>
              /\ job[w].data.kind = "mapping"
              /\ DOMAIN all_dataframes[w] = SevenNames
              /\ \A e \in SevenNames :
                    IF e \in DOMAIN job[w].data.tables /\ job[w].data.tables[e].kind = "records"
                    THEN all_dataframes[w][e] = job[w].data.tables[e].rows
                    ELSE all_dataframes[w][e] = <<>>
        /\ (pc[w] = "crashed" /\ validations[w] = <<>>) =>
              \/ job[w].data.kind # "mapping"
              \/ \E e \in SevenNames \cap DOMAIN job[w].data.tables :
                    job[w].data.tables[e].kind = "scalar"

C11_Witness ==
    \E w \in Ws : /\ validations[w] # <<>>
                  /\ DOMAIN job[w].data.tables = {"volumes", "vms", "extra"}
                  /\ all_dataframes[w]["volumes"] = <<"r2", "r1">>
                  /\ all_dataframes[w]["sources"] = <<>>
                  /\ Cardinality(DOMAIN all_dataframes[w]) = 7

(* C12, as claimed: a job that has the 'id' and the 'data' key reaches the
   validator whatever is stored under 'data'; the thread never dies while
   the tables are built. *)
C12_MaterializationAlwaysSucceeds ==
    \A w \in Ws :
        {"id", "data"} \subseteq job[w].keys =>
            ~(pc[w] = "crashed" /\ validations[w] = <<>>)

(* C12, amended: a job that has both keys reaches the validator when its data
   is a mapping whose values under the entity names are record lists or None;
   when the data is not a mapping (it has no get) the thread dies with
   AttributeError, and when a value under an entity name is a scalar it dies
   with ValueError, in both cases before the validator is invoked. *)
C12_MaterializationNeedsTabularData ==
    \A w \in Ws :
        ({"id", "data"} \subseteq job[w].keys /\ pc[w] \notin {"unborn", "started", "materialize"}) =>
            /\ WellFormedData(job[w].data) =>
                  /\ TablesBuilt(w)
                  /\ exc[w].type \notin {"AttributeError", "ValueError"}
                  /\ pc[w] # "aborted"
            /\ job[w].data.kind # "mapping" =>
                  /\ pc[w] = "crashed"
                  /\ exc[w].type = "AttributeError"
                  /\ validations[w] = <<>>
            /\ (job[w].data.kind = "mapping" /\ ~WellFormedData(job[w].data)) =>
                  /\ pc[w] = "crashed"
                  /\ exc[w].type = "ValueError"
                  /\ validations[w] = <<>>

C12_Witness ==
    \E w \in Ws : /\ job[w].keys = {"id", "data"}
                  /\ job[w].data = Mapping(<<>>)
                  /\ validations[w] = <<"ok">>
                  /\ all_dataframes[w]["vms"] = <<>>

(* C13, as claimed: every HTTP call of the job goes out with the header
   x-rh-identity holding exactly the identity given at launch, and the header
   is sent also when the identity is None. *)
C13_IdentityAlwaysSent ==
    \A w \in Ws : \A i \in 1..Len(sent[w]) :
        [name |-> "x-rh-identity", value |-> b64_identity[w]] \in sent[w][i].wire

(* C13, amended: every HTTP call of the job is made with the headers
   argument {x-rh-identity: identity given at launch}, unmodified; when the
   identity is not None the request goes out with exactly that header value,
   when it is None the session drops the header and no x-rh-identity header
   is sent. *)
C13_IdentityForwarded ==
    \A w \in Ws : \A i \in 1..Len(sent[w]) :
        /\ sent[w][i].headers = [name |-> "x-rh-identity", value |-> b64_identity[w]]
        /\ b64_identity[w] # "None" =>
              sent[w][i].wire = {[name |-> "x-rh-identity", value |-> b64_identity[w]]}
        /\ b64_identity[w] = "None" => sent[w][i].wire = {}

C13_Witness ==
    \E w \in Ws : /\ Len(sent[w]) = 3
                  /\ b64_identity[w] = "aWRlbnRpdHk="
                  /\ \A i \in 1..3 :
                        sent[w][i].wire = {[name |-> "x-rh-identity", value |-> "aWRlbnRpdHk="]}

C14_Once ==
    \A w \in Ws :
        /\ opened[w] <= 1
        /\ \A i \in 1..(Len(resps[w]) - 1) : ~Accepted(resps[w][i])
        /\ Cardinality({i \in 1..Len(resps[w]) : Accepted(resps[w][i])}) <= 1
        /\ (Len(resps[w]) >= 1 /\ Is2xx(resps[w][1])) =>
              /\ Len(sent[w]) = 1
              /\ opened[w] = 1
              /\ retval[w].kind = "returned"
              /\ pc[w] \in {"finish", "done"}

C14_NothingAfterSuccess ==
    \A w \in Ws : retval[w].kind = "returned" =>
        /\ sent'[w] = sent[w]
        /\ opened'[w] = opened[w]
        /\ output'[w] = output[w]

(* C14: the envelope of a job is built once and sent by one call of
   _retryable: a thread calls the sender at most once, nothing is sent after
   an attempt has succeeded, so a job has at most one successful POST; when
   the first attempt returns 2xx the job makes exactly one HTTP call. *)
C14_SentOnce == []C14_Once /\ [][C14_NothingAfterSuccess]_vars

C14_Witness ==
    \E w \in Ws : /\ job[w].id = "b1"
                  /\ validations[w] = <<"ok">>
                  /\ resps[w] = <<Response(200)>>
                  /\ Len(sent[w]) = 1
                  /\ pc[w] = "done"

\* the place of a log record in the order of the steps of worker()
StepRank(r) ==
    IF r.msg = "Worker started" THEN 1
    ELSE IF r.msg \in {"Started", "Invalid Job data, terminated."} THEN 2
    ELSE IF r.msg = "Validating" THEN 3
    ELSE IF r.msg = "Validation done, publishing" THEN 4
    ELSE IF r.level = "warning" THEN 5
    ELSE IF r.msg = "Failed to pass data" THEN 6
    ELSE 7

HasLog(w, m) == \E k \in 1..Len(logs[w]) : logs[w][k].msg = m

(* C15: inside one job the steps follow one another in the order parse,
   materialize, validate, envelope, dispatch, done: the validator is invoked
   at most once and with all seven tables built, every HTTP call comes after
   the validator has returned its result, attempt k+1 comes only after
   attempt k has failed, and the Done log comes only after the send has
   returned or has raised the delivery failure. *)
C15_StepsInOrder ==
    \A w \in Ws :
        /\ Len(validations[w]) <= 1
        /\ validations[w] # <<>> =>
              /\ Cardinality(DOMAIN all_dataframes[w]) = 7
              /\ HasLog(w, "Validating")
        /\ sent[w] # <<>> =>
              /\ validations[w] = <<"ok">>
              /\ result[w].convertible
              /\ output[w].data = result[w].value
              /\ HasLog(w, "Validation done, publishing")
        /\ Len(resps[w]) = Len(sent[w])
        /\ \A k \in 1..(Len(sent[w]) - 1) :
              StatusOrConnFailure(resps[w][k]) /\ Warned(w, k)
        /\ HasLog(w, "Done, exiting") =>
              /\ pc[w] = "done"
              /\ \/ retval[w].kind = "returned"
                 \/ retval[w].kind = "raised" /\ retval[w].exc.msg = "All attempts failed"
        /\ \A i, j \in 1..Len(logs[w]) :
              i < j => StepRank(logs[w][i]) <= StepRank(logs[w][j])

C15_Witness ==
    \E w \in Ws : /\ pc[w] = "done"
                  /\ AllThreeFailed(w)
                  /\ Len(logs[w]) = 9
                  /\ logs[w][1].msg = "Worker started"
                  /\ logs[w][9].msg = "Done, exiting"

C17_WorkerTerminates ==
    \A w \in One : (pc[w] = "started") ~> (pc[w] \in {"aborted", "crashed", "done"})

C17_Witness ==
    \E w \in Ws : /\ resps[w] = <<ConnErr, ConnErr, ConnErr>>
                  /\ pc[w] = "done"

\* the warnings of the thread, in the order they were logged
Warnings(w) == SelectSeq(logs[w], LAMBDA r : r.level = "warning")

(* C18: every failed attempt logs exactly one warning that names the number
   of the attempt (counted from 0) and the loop goes on: a send with f failed
   attempts has logged f warnings, with the numbers 0..f-1 in this order, and
   after every warning but the one of the MAX_RETRIES-th attempt the next
   attempt is made. *)
C18_OneWarningPerFailure ==
    \A w \in Ws :
        LET ws == Warnings(w)
            failed == {i \in 1..Len(resps[w]) : StatusOrConnFailure(resps[w][i])}
        IN
        /\ Len(ws) = Cardinality(failed)
        /\ Len(ws) <= 3
        /\ failed = 1..Len(ws)
        /\ \A k \in 1..Len(ws) :
              /\ ws[k].n = k - 1
              /\ k < 3 =>
                    \/ Len(sent[w]) > k
                    \/ /\ Len(sent[w]) = k
                       /\ pc[w] = "attempt"
                       /\ attempt[w] = k
                       /\ session[w] = "open"

C18_Witness ==
    \E w \in Ws : /\ Len(Warnings(w)) = 3
                  /\ Warnings(w)[1].n = 0
                  /\ Warnings(w)[3].n = 2
                  /\ resps[w] = <<Response(404), Response(500), ConnErr>>

\* attempts that raised something else than HTTPError / ConnectionError
OtherErrors(w) ==
    {i \in 1..Len(resps[w]) : resps[w][i].kind \notin {"response", "ConnectionError"}}

(* C19: an error of an HTTP call that is neither an HTTPError nor a
   ConnectionError (a read timeout) is not retried and not contained: the
   send ends with that attempt, the handler of worker() does not catch it,
   and the thread dies without the error log of the job and without the Done
   log. *)
C19_OtherErrorsKillTheWorker ==
    \A w \in Ws : \A i \in OtherErrors(w) :
        /\ i = Len(resps[w])
        /\ Len(sent[w]) = i
        /\ retval[w].kind = "raised"
        /\ retval[w].exc.type = resps[w][i].kind
        /\ pc[w] = "crashed"
        /\ exc[w].type = resps[w][i].kind
        /\ session[w] = "closed"
        /\ ErrorLogs(w) = {}
        /\ ~HasLog(w, "Done, exiting")
        /\ Len(Warnings(w)) = i - 1

C19_Witness ==
    \E w \in Ws : /\ resps[w] = <<Response(500), ReadTimeout>>
                  /\ pc[w] = "crashed"
                  /\ exc[w].type = "ReadTimeout"
                  /\ Len(sent[w]) = 2

====
